---- MODULE Spec2Model ----
(***************************************************************************)
(* A model of sklearn-porter's Estimator facade (Estimator.py): the         *)
(* capability check `can`, the language/template setters, the port/save    *)
(* requests, and the make pipeline (dependency check, save, compile, path  *)
(* polling, per-row system calls over a worker pool, cleanup).             *)
(***************************************************************************)
EXTENDS Integers, Sequences, FiniteSets, TLC

None == "None"

\* ------------------------------------------------------------------ enums
Languages == {"c", "go", "java", "js", "php", "ruby"}
Templates == {"attached", "combined", "exported"}
Methods == {"predict", "predict_proba"}
ALL_METHODS == Methods

Kinds == {"DecisionTreeClassifier", "MLPClassifier", "MLPRegressor"}

\* ------------------------------------------------------- SUPPORT tables
DecisionTreeClassifier_SUPPORT ==
    ("c" :> ("attached" :> ALL_METHODS @@ "combined" :> ALL_METHODS))
    @@ ("go" :> ("attached" :> ALL_METHODS @@ "combined" :> ALL_METHODS
                 @@ "exported" :> ALL_METHODS))
    @@ ("java" :> ("attached" :> ALL_METHODS @@ "combined" :> ALL_METHODS
                   @@ "exported" :> ALL_METHODS))
    @@ ("js" :> ("attached" :> ALL_METHODS @@ "combined" :> ALL_METHODS
                 @@ "exported" :> ALL_METHODS))
    @@ ("php" :> ("attached" :> ALL_METHODS @@ "combined" :> ALL_METHODS
                  @@ "exported" :> ALL_METHODS))
    @@ ("ruby" :> ("attached" :> ALL_METHODS @@ "combined" :> ALL_METHODS
                   @@ "exported" :> ALL_METHODS))

MLPClassifier_SUPPORT ==
    ("java" :> ("attached" :> ALL_METHODS @@ "exported" :> ALL_METHODS))
    @@ ("js" :> ("attached" :> ALL_METHODS @@ "exported" :> ALL_METHODS))

MLPRegressor_SUPPORT ==
    ("js" :> ("attached" :> {"predict"} @@ "exported" :> {"predict"}))

SUPPORT(kind) ==
    CASE kind = "DecisionTreeClassifier" -> DecisionTreeClassifier_SUPPORT
      [] kind = "MLPClassifier" -> MLPClassifier_SUPPORT
      [] kind = "MLPRegressor" -> MLPRegressor_SUPPORT

DEFAULT_LANGUAGE(kind) ==
    CASE kind = "DecisionTreeClassifier" -> "java"
      [] kind = "MLPClassifier" -> "java"
      [] kind = "MLPRegressor" -> "js"

DEFAULT_TEMPLATE(kind) == "attached"

DEFAULT_METHOD(kind) == "predict"

\* The SUPPORT attributes as the classes define them.
ClassSupport == [k \in Kinds |-> SUPPORT(k)]

\* can(estimator, language, template, method) with the classes' SUPPORT
\* attributes being sup; an omitted argument is None.
can_of(sup, kind, language, template, method) ==
    IF kind \notin Kinds THEN FALSE
    ELSE IF language = None /\ template = None /\ method = None THEN TRUE
    ELSE IF language = None THEN FALSE
    ELSE IF language \notin DOMAIN sup[kind] THEN FALSE
    ELSE IF template = None THEN TRUE
    ELSE IF template \notin DOMAIN sup[kind][language] THEN FALSE
    ELSE IF method = None THEN TRUE
    ELSE method \in sup[kind][language][template]

\* can(estimator, language, template, method); an omitted argument is None.
can(kind, language, template, method) ==
    can_of(ClassSupport, kind, language, template, method)

\* Mutant of show: the plain marker is tried before the probability marker.
showPlainFirst(sup, language) ==
    [k \in Kinds |->
       [l \in (IF language # None THEN {language} ELSE Languages) |->
          [t \in Templates |->
             IF can_of(sup, k, l, t, None) THEN "plain"
             ELSE IF can_of(sup, k, l, t, "predict_proba") THEN "proba"
             ELSE "none"]]]

\* show(language): per estimator class, language (all of them, or the one
\* given) and template, the cell's marker.
show(sup, language) ==
    [k \in Kinds |->
       [l \in (IF language # None THEN {language} ELSE Languages) |->
          [t \in Templates |->
             IF can_of(sup, k, l, t, "predict_proba") THEN "proba"
             ELSE IF can_of(sup, k, l, t, None) THEN "plain"
             ELSE "none"]]]

\* --------------------------------------------------------------- state
VARIABLES
    kind,        \* the wrapped estimator's class
    language,    \* Estimator._language
    template,    \* Estimator._template
    class_name,  \* Estimator._class_name
    converter,   \* Estimator._converter
    req,         \* the request in progress or last finished
    err,         \* the exception the last request raised, or None
    tplLoaded,   \* the estimator subclass's port loaded its templates
    pc,          \* make: the orchestrating caller's position
    params,      \* make: n_jobs, delete_created_files, check_dependencies
    env,         \* make: the machine (toolchain present, whether the program
                 \* prints the key predict, and the key it prints its
                 \* probabilities under, or None)
    x,           \* make: the batch, one feature vector per row
    disk,        \* the paths that exist on disk
    created_files, \* make: the tracked generated paths
    class_paths, \* make: the class paths handed to javac and java
    pollIdx,     \* make: index in paths_to_check of the path being polled
    polls,       \* make: open() attempts on the polled path so far
    sleeps,      \* make: sleep(0.1) calls of the current poll loop
    pollFound,   \* make: the last poll loop ended by finding its path
    rows,        \* make: per row, the worker's progress through _system_call
    y,           \* make: the results gathered by map / pool.map, then zipped
    logged,      \* make: a decode error was handed to the logger
    reordered,   \* make: some row finished before a row of lower index
    ret,         \* make: the returned pair, or None
    model_data,  \* the wrapped estimator's extracted model data
    FLOAT_REPR,  \* json.encoder.FLOAT_REPR, an attribute of the process
    out,         \* what the last port request returned
    compiled,    \* make: what _compile met (gson, the compiler's exit and output)
    score,       \* test: normalize, and the score returned
    registry,    \* the SUPPORT attribute of each estimator class
    report       \* what the last can or show call returned

estVars == <<kind, language, template, class_name, converter>>
reqVars == <<req, err, tplLoaded>>
makeVars == <<pc, params, env, x, created_files, class_paths, pollIdx, polls,
              sleeps, pollFound, rows, y, logged, reordered, ret, compiled,
              score>>
portVars == <<model_data, FLOAT_REPR, out>>
capVars == <<registry, report>>
vars == <<estVars, reqVars, makeVars, disk, portVars, capVars>>

ClassNames == {"Default", "Custom"}
Converters == {"str", "fixed"}

Settings == [language |-> language, template |-> template,
             class_name |-> class_name, converter |-> converter]

\* The language setter: the new settings, or a raise.
language_setter(s, k, l) ==
    IF can(k, l, None, None)
    THEN [settings |-> [s EXCEPT !.language = l], raised |-> FALSE]
    ELSE [settings |-> s, raised |-> TRUE]

\* Mutant of template_setter: the template is taken without a check.
template_setterUnchecked(s, k, t) ==
    [settings |-> [s EXCEPT !.template = t], raised |-> FALSE]

\* The template setter, checked against the current language.
template_setter(s, k, t) ==
    IF can(k, s.language, t, None)
    THEN [settings |-> [s EXCEPT !.template = t], raised |-> FALSE]
    ELSE [settings |-> s, raised |-> TRUE]

\* Keyword arguments: an absent key is None.
Kwargs == [language : Languages \cup {None}, template : Templates \cup {None},
           class_name : {None, "", "Custom"},
           converter : {None, "fixed"},
           method : Methods \cup {None}]

\* The keyword arguments the save requests are drawn from.
SaveKwargs == {kw \in Kwargs : kw.class_name = None /\ kw.converter = None}

\* The keyword arguments the port requests on the facade are drawn from.
EstKwargs == {kw \in Kwargs : kw.class_name # "" /\ kw.converter = None}

NoKwargs == [language |-> None, template |-> None, class_name |-> None,
             converter |-> None, method |-> None]

\* _check_kwargs: the settings after it and whether it raised.
\* The assignments happen in order, and a raise keeps those already made.
_check_kwargs(s, k, kw) ==
    LET r1 == IF kw.language # None THEN language_setter(s, k, kw.language)
              ELSE [settings |-> s, raised |-> FALSE]
    IN  IF r1.raised THEN r1
        ELSE
        LET r2 == IF kw.template # None
                  THEN template_setter(r1.settings, k, kw.template) ELSE r1
        IN  IF r2.raised THEN r2
            ELSE
            LET s2 == r2.settings
                s3 == IF kw.class_name \notin {None, ""}
                      THEN [s2 EXCEPT !.class_name = kw.class_name] ELSE s2
                s4 == IF kw.converter # None
                      THEN [s3 EXCEPT !.converter = kw.converter] ELSE s3
            IN  [settings |-> s4, raised |-> FALSE]

\* The (language, template, method) a request with these kwargs asks for.
Requested(op, s, k, kw) ==
    [op |-> op,
     language |-> IF kw.language # None THEN kw.language ELSE s.language,
     template |-> IF kw.template # None THEN kw.template ELSE s.template,
     method |-> IF kw.method # None THEN kw.method ELSE DEFAULT_METHOD(k)]

NoRequest == [op |-> None, language |-> None, template |-> None,
              method |-> None]

Assign(s) ==
    /\ language' = s.language
    /\ template' = s.template
    /\ class_name' = s.class_name
    /\ converter' = s.converter
    /\ UNCHANGED kind

\* The files EstimatorBase.save writes: the source, and in the exported
\* template the model data beside it.
SavedFiles(t) == IF t = "exported" THEN {"src", "data"} ELSE {"src"}

\* ------------------------------------------------- numbers and their text
\* A floating-point value is counted in hundredths (125 is 1.25). A text is
\* a sign, the digits before the point as a number, and the digits after it.
Abs(v) == IF v < 0 THEN 0 - v ELSE v

\* str(n) of an integer.
str_int(n) == [neg |-> n < 0, whole |-> Abs(n), frac |-> << >>]

\* str(v) and float.__repr__(v) of a float: the shortest text that reads
\* back as v, with at least one digit after the point.
str_float(v) ==
    LET a == Abs(v)
        f == a % 100
    IN  [neg |-> v < 0, whole |-> a \div 100,
         frac |-> IF f % 10 = 0 THEN <<f \div 10>> ELSE <<f \div 10, f % 10>>]

\* A caller's fixed-precision converter, lambda x: '%.1f' % x: one digit
\* after the point, a tie going to the even digit.
fixed(v) ==
    LET a == Abs(v)
        q == a \div 10
        r == a % 10
        t == IF r > 5 \/ (r = 5 /\ q % 2 = 1) THEN q + 1 ELSE q
    IN  [neg |-> v < 0, whole |-> t \div 10, frac |-> <<t % 10>>]

\* Mutant of convert: the converter is ignored and str is used.
convertIgnored(c, v) == str_float(v)

\* self.converter applied to a float: the default is lambda x: str(x).
convert(c, v) == IF c = "fixed" THEN fixed(v) ELSE str_float(v)

\* The number a target program reads from a text, in hundredths.
Parse(t) ==
    LET m == t.whole * 100
             + (IF Len(t.frac) = 0 THEN 0
                ELSE IF Len(t.frac) = 1 THEN t.frac[1] * 10
                ELSE t.frac[1] * 10 + t.frac[2])
    IN  IF t.neg THEN 0 - m ELSE m

\* The integer a target program reads from an integer literal.
ParseInt(t) == IF t.neg THEN 0 - t.whole ELSE t.whole

\* --------------------------------------------------------- model data
MaxNodes == 3

LEAF == -200  \* thresholds[node] of a leaf, -2.0
NO_CHILD == -1
NO_FEATURE == -2

Thresholds == {25, 160}
FeatureIdx == {0, 1}
LeafCounts == {<<0, 0, 0>>, <<1, 0, 2>>}
InnerCounts == <<3, 0, 4>>

NoFcn == [i \in {} |-> 0]

\* The child arrays of the binary trees of n nodes numbered first, first+1,
\* ... in preorder, as sklearn numbers them.
RECURSIVE Shapes(_, _)
Shapes(first, n) ==
    IF n = 0 THEN {[lefts |-> NoFcn, rights |-> NoFcn]}
    ELSE UNION {
           {[lefts |-> (first :> (IF k = 0 THEN NO_CHILD ELSE first + 1))
                       @@ l.lefts @@ r.lefts,
             rights |-> (first :> (IF k = n - 1 THEN NO_CHILD
                                   ELSE first + 1 + k))
                        @@ l.rights @@ r.rights] :
              l \in Shapes(first + 1, k),
              r \in Shapes(first + 1 + k, n - 1 - k)} : k \in 0..(n - 1)}

IsLeafShape(sh, i) == sh.lefts[i] = NO_CHILD /\ sh.rights[i] = NO_CHILD

\* self.model_data of a DecisionTreeClassifier: tree_.children_left,
\* children_right, threshold, feature and value as lists.
Trees ==
    UNION {
      UNION {
        {[lefts |-> sh.lefts, rights |-> sh.rights, thresholds |-> th,
          indices |-> ix, classes |-> cl] :
           th \in {g \in [0..(n - 1) -> Thresholds \cup {LEAF}] :
                     \A i \in 0..(n - 1) : (g[i] = LEAF) <=> IsLeafShape(sh, i)},
           ix \in {g \in [0..(n - 1) -> FeatureIdx \cup {NO_FEATURE}] :
                     \A i \in 0..(n - 1) :
                        (g[i] = NO_FEATURE) <=> IsLeafShape(sh, i)},
           cl \in {g \in [0..(n - 1) -> LeafCounts \cup {InnerCounts}] :
                     \A i \in 0..(n - 1) :
                        (g[i] = InnerCounts) <=> ~IsLeafShape(sh, i)}} :
        sh \in Shapes(0, n)} : n \in 1..MaxNodes}

\* self.model_data of an MLPClassifier: the sizes of the layers after the
\* input, coefs_ and intercepts_ as lists, and the activation names.
Networks ==
    {[layers |-> <<1>>, weights |-> <<<< <<w>>, <<160>> >>>>,
      bias |-> << <<b>> >>, hidden_activation |-> "relu",
      output_activation |-> "logistic"] : w \in {25, -75}, b \in {0, 125}}
    \cup
    {[layers |-> <<1, 1>>, weights |-> << << <<25>> >>, << <<-160>> >> >>,
      bias |-> << <<125>>, <<-75>> >>, hidden_activation |-> "tanh",
      output_activation |-> "softmax"]}

\* MLPRegressor: the same without output_activation (read back as None).
RegressorNetworks == {[nw EXCEPT !.output_activation = None] : nw \in Networks}

ModelData(k) ==
    CASE k = "DecisionTreeClassifier" -> Trees
      [] k = "MLPClassifier" -> Networks
      [] k = "MLPRegressor" -> RegressorNetworks

\* The smallest model of each kind.
SomeModel(k) ==
    CASE k = "DecisionTreeClassifier" ->
           [lefts |-> (0 :> NO_CHILD), rights |-> (0 :> NO_CHILD),
            thresholds |-> (0 :> LEAF), indices |-> (0 :> NO_FEATURE),
            classes |-> (0 :> <<1, 0, 2>>)]
      [] k = "MLPClassifier" ->
           [layers |-> <<1>>, weights |-> <<<< <<25>>, <<160>> >>>>,
            bias |-> << <<0>> >>, hidden_activation |-> "relu",
            output_activation |-> "logistic"]
      [] k = "MLPRegressor" ->
           [layers |-> <<1>>, weights |-> <<<< <<25>>, <<160>> >>>>,
            bias |-> << <<0>> >>, hidden_activation |-> "relu",
            output_activation |-> None]

\* ------------------------------------------------ the estimators' port
\* Mutant of Plas: the model's arrays are bound for every template.
PlasWithArrays(k, cn, to_json, md) ==
    IF k = "DecisionTreeClassifier"
    THEN [class_name |-> cn, to_json |-> to_json,
          n_features |-> Cardinality(FeatureIdx),
          n_classes |-> Len(md.classes[0]), thresholds |-> md.thresholds]
    ELSE [class_name |-> cn, to_json |-> to_json,
          n_features |-> Len(md.weights[1]), weights |-> md.weights]

\* The placeholders every template is rendered with: class_name, to_json
\* and the meta information.
Plas(k, cn, to_json, md) ==
    IF k = "DecisionTreeClassifier"
    THEN [class_name |-> cn, to_json |-> to_json,
          n_features |-> Cardinality(FeatureIdx),
          n_classes |-> Len(md.classes[0])]
    ELSE [class_name |-> cn, to_json |-> to_json,
          n_features |-> Len(md.weights[1])]

\* json.dumps of a float: the encoder writes float.__repr__(v); it does not
\* read the module attribute FLOAT_REPR.
dumps_float(v) == str_float(v)

\* The tokens of the emitted branch code.
IfTok(sigil, a, b, depth) ==
    [kind |-> "if", sigil |-> sigil, a |-> a, op |-> "<=", b |-> b,
     depth |-> depth]
ElseTok(depth) ==
    [kind |-> "else", sigil |-> FALSE, a |-> 0, op |-> "", b |-> str_int(0),
     depth |-> depth]
EndifTok(depth) ==
    [kind |-> "endif", sigil |-> FALSE, a |-> 0, op |-> "", b |-> str_int(0),
     depth |-> depth]
AssignTok(sigil, i, rate, depth) ==
    [kind |-> "assign", sigil |-> sigil, a |-> i, op |-> "=",
     b |-> str_int(rate), depth |-> depth]
JoinTok ==
    [kind |-> "join", sigil |-> FALSE, a |-> 0, op |-> "", b |-> str_int(0),
     depth |-> 0]

RECURSIVE Flatten(_)
Flatten(ss) == IF ss = << >> THEN << >> ELSE Head(ss) \o Flatten(Tail(ss))

\* Mutant of LeafCode: a class with a zero count is assigned as well.
LeafCodeAll(l, value, depth) ==
    Flatten([i \in 1..Len(value) |->
               <<AssignTok(l = "php", i - 1, value[i], depth), JoinTok>>])

\* The leaf branch of _create_branch: one `classes[i] = rate` per class
\* with int(rate) > 0, joined by and ended with the join template.
LeafCode(l, value, depth) ==
    LET clazzes == Flatten([i \in 1..Len(value) |->
                      IF value[i] > 0
                      THEN <<AssignTok(l = "php", i - 1, value[i], depth)>>
                      ELSE << >>])
    IN  IF clazzes = << >> THEN <<JoinTok>>
        ELSE Flatten([j \in 1..Len(clazzes) |-> <<clazzes[j], JoinTok>>])

\* Mutant of _create_branch: the right subtree is emitted before the left.
RECURSIVE _create_branchRightFirst(_, _, _, _, _)
_create_branchRightFirst(l, c, md, node, depth) ==
    IF md.thresholds[node] # LEAF
    THEN <<IfTok(l = "php", md.indices[node], convert(c, md.thresholds[node]),
                 depth)>>
         \o (IF md.rights[node] # NO_CHILD
             THEN _create_branchRightFirst(l, c, md, md.rights[node], depth + 1)
             ELSE << >>)
         \o <<ElseTok(depth)>>
         \o (IF md.lefts[node] # NO_CHILD
             THEN _create_branchRightFirst(l, c, md, md.lefts[node], depth + 1)
             ELSE << >>)
         \o <<EndifTok(depth)>>
    ELSE LeafCode(l, md.classes[node], depth)

\* _create_branch(tpls, language, converter, lefts, rights, thresholds,
\* classes, indices, node, depth)
RECURSIVE _create_branch(_, _, _, _, _)
_create_branch(l, c, md, node, depth) ==
    IF md.thresholds[node] # LEAF
    THEN <<IfTok(l = "php", md.indices[node], convert(c, md.thresholds[node]),
                 depth)>>
         \o (IF md.lefts[node] # NO_CHILD
             THEN _create_branch(l, c, md, md.lefts[node], depth + 1)
             ELSE << >>)
         \o <<ElseTok(depth)>>
         \o (IF md.rights[node] # NO_CHILD
             THEN _create_branch(l, c, md, md.rights[node], depth + 1)
             ELSE << >>)
         \o <<EndifTok(depth)>>
    ELSE LeafCode(l, md.classes[node], depth)

\* _create_tree: the branch of node 0, indented by one level for Java, JS,
\* PHP and Ruby.
_create_tree(l, c, md) ==
    _create_branch(l, c, md, 0,
                   IF l \in {"java", "js", "php", "ruby"} THEN 1 ELSE 0)

ArrayNames == {"lefts", "rights", "thresholds", "indices", "classes",
               "layers", "weights", "bias"}

NoData == [n \in {} |-> 0]

\* DecisionTreeClassifier.port
DecisionTreeClassifier_port(l, t, cn, c, to_json, md) ==
    LET plas == Plas("DecisionTreeClassifier", cn, to_json, md)
        N == DOMAIN md.lefts
        arrays ==
          [lefts |-> [i \in N |-> str_int(md.lefts[i])],
           rights |-> [i \in N |-> str_int(md.rights[i])],
           thresholds |-> [i \in N |-> convert(c, md.thresholds[i])],
           indices |-> [i \in N |-> str_int(md.indices[i])],
           classes |-> [i \in N |-> [j \in DOMAIN md.classes[i] |->
                                       str_int(md.classes[i][j])]]]
    IN  IF t = "exported"
        THEN [pair |-> TRUE,
              src |-> [tpl |-> "exported.class", vals |-> plas],
              data |-> [lefts |-> [i \in N |-> str_int(md.lefts[i])],
                        rights |-> [i \in N |-> str_int(md.rights[i])],
                        thresholds |-> [i \in N |-> dumps_float(md.thresholds[i])],
                        indices |-> [i \in N |-> str_int(md.indices[i])],
                        classes |-> [i \in N |-> [j \in DOMAIN md.classes[i] |->
                                                    str_int(md.classes[i][j])]]]]
        ELSE IF t = "attached"
        THEN [pair |-> FALSE,
              src |-> [tpl |-> "attached.class", vals |-> arrays @@ plas],
              data |-> NoData]
        ELSE [pair |-> FALSE,
              src |-> [tpl |-> "combined.class",
                       vals |-> ("tree" :> _create_tree(l, c, md))
                                @@ arrays @@ plas],
              data |-> NoData]

\* MLPClassifier.port, which MLPRegressor inherits.
MLPClassifier_port(l, t, cn, c, to_json, md) ==
    LET plas == Plas("MLPClassifier", cn, to_json, md)
        W == md.weights
        B == md.bias
    IN  IF t = "exported"
        THEN [pair |-> TRUE,
              src |-> [tpl |-> "exported.class", vals |-> plas],
              data |-> [layers |-> [i \in DOMAIN md.layers |->
                                      str_int(md.layers[i])],
                        weights |-> [i \in DOMAIN W |-> [j \in DOMAIN W[i] |->
                                       [n \in DOMAIN W[i][j] |->
                                          dumps_float(W[i][j][n])]]],
                        bias |-> [i \in DOMAIN B |-> [j \in DOMAIN B[i] |->
                                    dumps_float(B[i][j])]],
                        hidden_activation |-> md.hidden_activation,
                        output_activation |-> md.output_activation]]
        ELSE [pair |-> FALSE,
              src |-> [tpl |-> "attached.class",
                       vals |->
                         [layers |-> [i \in DOMAIN md.layers |->
                                        str_int(md.layers[i])],
                          weights |-> [i \in DOMAIN W |-> [j \in DOMAIN W[i] |->
                                         [n \in DOMAIN W[i][j] |->
                                            convert(c, W[i][j][n])]]],
                          bias |-> [i \in DOMAIN B |-> [j \in DOMAIN B[i] |->
                                      convert(c, B[i][j])]],
                          hidden_activation |-> md.hidden_activation,
                          output_activation |-> md.output_activation]
                         @@ plas],
              data |-> NoData]

\* self._estimator.port(language, template, class_name, converter, to_json)
estimator_port(k, s, to_json, md) ==
    IF k = "DecisionTreeClassifier"
    THEN DecisionTreeClassifier_port(s.language, s.template, s.class_name,
                                     s.converter, to_json, md)
    ELSE MLPClassifier_port(s.language, s.template, s.class_name,
                            s.converter, to_json, md)

\* What a request returned: nothing, or the port's source (and data).
NoOutput == [returned |-> FALSE, pair |-> FALSE,
             src |-> [tpl |-> None, vals |-> NoData], data |-> NoData]

Returned(o) == [returned |-> TRUE, pair |-> o.pair, src |-> o.src,
                data |-> o.data]

\* encoder.FLOAT_REPR after a port: the exported branch rebinds it to a
\* lambda around the converter.
FloatReprAfter(fr, s) == IF s.template = "exported" THEN s.converter ELSE fr

\* --------------------------------------------- the estimator's operations
\* est.language = l
SetLanguage(l) ==
    LET r == language_setter(Settings, kind, l)
    IN  /\ Assign(r.settings)
        /\ req' = [NoRequest EXCEPT !.op = "language"]
        /\ err' = IF r.raised THEN "NotSupportedYetError" ELSE None
        /\ tplLoaded' = FALSE
        /\ out' = NoOutput
        /\ UNCHANGED <<makeVars, disk, model_data, FLOAT_REPR, capVars>>

\* est.template = t
SetTemplate(t) ==
    LET r == template_setter(Settings, kind, t)
    IN  /\ Assign(r.settings)
        /\ req' = [NoRequest EXCEPT !.op = "template", !.template = t]
        /\ err' = IF r.raised THEN "NotSupportedYetError" ELSE None
        /\ tplLoaded' = FALSE
        /\ out' = NoOutput
        /\ UNCHANGED <<makeVars, disk, model_data, FLOAT_REPR, capVars>>

\* Whether get_template finds the class template of the pair: the template
\* files of a pair outside SUPPORT are not known to exist.
TemplateFound(k, s) ==
    IF can(k, s.language, s.template, None) THEN {TRUE} ELSE BOOLEAN

\* est.port(**kw): _check_kwargs, then the estimator subclass's port, which
\* loads the language's templates and renders without a further check.
Port(kw) ==
    LET r == _check_kwargs(Settings, kind, kw)
    IN  \E found \in (IF r.raised THEN {TRUE} ELSE TemplateFound(kind, r.settings)) :
        /\ Assign(r.settings)
        /\ req' = Requested("port", Settings, kind, kw)
        /\ err' = IF r.raised THEN "NotSupportedYetError"
                  ELSE IF ~found THEN "TemplateNotFound" ELSE None
        /\ tplLoaded' = ~r.raised
        /\ out' = IF r.raised \/ ~found THEN NoOutput
                  ELSE Returned(estimator_port(kind, r.settings, FALSE, model_data))
        /\ FLOAT_REPR' = IF r.raised \/ ~found THEN FLOAT_REPR
                         ELSE FloatReprAfter(FLOAT_REPR, r.settings)
        /\ UNCHANGED <<makeVars, disk, model_data, capVars>>

\* est.save(**kw): as port, and the rendered files are written.
Save(kw) ==
    LET r == _check_kwargs(Settings, kind, kw)
    IN  \E found \in (IF r.raised THEN {TRUE} ELSE TemplateFound(kind, r.settings)) :
        /\ Assign(r.settings)
        /\ req' = Requested("save", Settings, kind, kw)
        /\ err' = IF r.raised THEN "NotSupportedYetError"
                  ELSE IF ~found THEN "TemplateNotFound" ELSE None
        /\ tplLoaded' = ~r.raised
        /\ disk' = IF r.raised \/ ~found THEN disk
                   ELSE disk \cup SavedFiles(r.settings.template)
        /\ out' = NoOutput
        /\ FLOAT_REPR' = IF r.raised \/ ~found THEN FLOAT_REPR
                         ELSE FloatReprAfter(FLOAT_REPR, r.settings)
        /\ UNCHANGED <<makeVars, model_data, capVars>>

\* Estimator(estimator, language, template, class_name, converter): the
\* settings after a construction that did not raise.
Constructed(k, l, t, c, v) ==
    LET s0 == [language |-> None, template |-> None,
               class_name |-> None, converter |-> None]
        r1 == language_setter(s0, k, IF l # None THEN l ELSE DEFAULT_LANGUAGE(k))
        r2 == template_setter(r1.settings, k,
                              IF t # None THEN t ELSE DEFAULT_TEMPLATE(k))
    IN  [raised |-> r1.raised \/ r2.raised,
         settings |-> [r2.settings EXCEPT
                         !.class_name = IF c \notin {None, ""} THEN c ELSE "Default",
                         !.converter = IF v # None THEN v ELSE "str"]]

NoParams == [n_jobs |-> [tag |-> "bool", val |-> 1],
             delete_created_files |-> TRUE, check_dependencies |-> TRUE,
             kwargs |-> NoKwargs]

NoReturn == [returned |-> FALSE, bare |-> FALSE, pred |-> << >>,
             hasProba |-> FALSE, proba |-> << >>]

\* Before _compile has run.
NoCompile == [ran |-> FALSE, ok |-> FALSE, diag |-> {}, isTest |-> FALSE,
              hadGson |-> FALSE]

NoScore == [normalize |-> FALSE, returned |-> FALSE, num |-> 0, den |-> 1]

NoTable == [k \in {} |-> 0]

NoReport == [op |-> None, kind |-> None, language |-> None, template |-> None,
             method |-> None, can |-> FALSE, table |-> NoTable]

MakeIdle ==
    /\ pc = "idle"
    /\ params = NoParams
    /\ x = << >>
    /\ created_files = << >>
    /\ class_paths = << >>
    /\ pollIdx = 1
    /\ polls = 0
    /\ sleeps = 0
    /\ pollFound = FALSE
    /\ rows = << >>
    /\ y = << >>
    /\ logged = FALSE
    /\ reordered = FALSE
    /\ ret = NoReturn
    /\ FLOAT_REPR = "float.__repr__"
    /\ out = NoOutput
    /\ compiled = NoCompile
    /\ score = NoScore
    /\ registry = ClassSupport
    /\ report = NoReport

InitEst ==
    /\ kind \in Kinds
    /\ \E l \in Languages \cup {None}, t \in Templates \cup {None},
          c \in {None, "Custom"}, v \in {None} :
          LET r == Constructed(kind, l, t, c, v)
          IN  /\ ~r.raised
              /\ language = r.settings.language
              /\ template = r.settings.template
              /\ class_name = r.settings.class_name
              /\ converter = r.settings.converter
    /\ req = NoRequest
    /\ err = None
    /\ tplLoaded = FALSE
    /\ disk = {}
    /\ env = [toolchain |-> TRUE, predict |-> TRUE, proba |-> None]
    /\ model_data = SomeModel(kind)
    /\ MakeIdle

NextEst ==
    \/ \E l \in Languages : SetLanguage(l)
    \/ \E t \in Templates : SetTemplate(t)
    \/ \E kw \in EstKwargs : Port(kw)
    \/ \E kw \in SaveKwargs : Save(kw)

SpecEst == InitEst /\ [][NextEst]_vars

\* ------------------------------------------------------------ make
MAX_ATTEMPTS == 10
POLL_ATTEMPTS == 10
cpu_count == 2

\* Languages whose CMD_COMPILE is set: the ones _compile builds arguments for.
HasCompileCmd(l) == l \in {"c", "go", "java"}

\* The file a successful compilation writes: <dir>/<stem> or <dir>/<stem>.class.
Artifact(l) == IF l = "java" THEN "class" ELSE "bin"

\* The cmd_args of the execute command; an absent key is None.
ExecArgs(l) ==
    IF l \in {"c", "go"} THEN [src_path |-> None, dest_path |-> "bin"]
    ELSE IF l = "java" THEN [src_path |-> None, dest_path |-> "stem"]
    ELSE IF l \in {"js", "php", "ruby"} THEN [src_path |-> "src", dest_path |-> None]
    ELSE [src_path |-> None, dest_path |-> None]

paths_to_check(l) ==
    (IF ExecArgs(l).src_path # None THEN <<ExecArgs(l).src_path>> ELSE << >>)
    \o (IF ExecArgs(l).dest_path # None THEN <<ExecArgs(l).dest_path>> ELSE << >>)

\* The pool make runs the calls on: map in the caller (one at a time), or
\* Pool(n).map.
Workers(nj) ==
    LET n1 == IF nj.tag \in {"bool", "int"} /\ nj.val <= 1
              THEN [tag |-> "bool", val |-> 0] ELSE nj
    IN  IF n1.tag \in {"bool", "int"} /\ n1.val = 0
        THEN [pool |-> FALSE, size |-> 1]
        ELSE IF n1.tag = "bool" THEN [pool |-> TRUE, size |-> cpu_count]
        ELSE IF n1.tag # "int" THEN [pool |-> TRUE, size |-> cpu_count]
        ELSE [pool |-> TRUE, size |-> n1.val]

\* What the generated program prints for a row's features.
ProgramPredict(f) == 2 * f[1] + f[2]
ProgramProba(f) == 100 + f[1]

\* The keys a program may print its probabilities under.
ProbaKeys == {"predict_proba", "predictProba"}

NoneResult == [none |-> TRUE, val |-> << >>]
ListResult(v) == [none |-> FALSE, val |-> v]

Range(q) == {q[i] : i \in DOMAIN q}

\* make(x, n_jobs, delete_created_files, check_dependencies, **kw): first
\* _check_kwargs.
MakeCall(kw, nj, del, chk, batch) ==
    /\ UNCHANGED <<portVars, capVars, compiled, score>>
    /\ pc = "idle"
    /\ LET r == _check_kwargs(Settings, kind, kw)
       IN  /\ Assign(r.settings)
           /\ req' = Requested("make", Settings, kind, kw)
           /\ err' = IF r.raised THEN "NotSupportedYetError" ELSE None
           /\ pc' = IF r.raised THEN "done" ELSE "deps"
    /\ tplLoaded' = FALSE
    /\ params' = [n_jobs |-> nj, delete_created_files |-> del,
                  check_dependencies |-> chk, kwargs |-> kw]
    /\ x' = batch
    /\ UNCHANGED <<env, disk, created_files, class_paths, pollIdx, polls,
                   sleeps, pollFound, rows, y, logged, reordered, ret>>

\* Mutant of CheckDependencies: the check is never made.
CheckDependenciesSkipped ==
    /\ UNCHANGED <<portVars, capVars, compiled, score>>
    /\ pc = "deps"
    /\ err' = err
    /\ pc' = "save"
    /\ UNCHANGED <<estVars, req, tplLoaded, params, env, x, disk,
                   created_files, class_paths, pollIdx, polls, sleeps,
                   pollFound, rows, y, logged, reordered, ret>>

\* if check_dependencies: self._check_dependencies(self._language)
CheckDependencies ==
    /\ UNCHANGED <<portVars, capVars, compiled, score>>
    /\ pc = "deps"
    /\ IF params.check_dependencies /\ ~env.toolchain
       THEN err' = "RuntimeError" /\ pc' = "done"
       ELSE err' = err /\ pc' = "save"
    /\ UNCHANGED <<estVars, req, tplLoaded, params, env, x, disk,
                   created_files, class_paths, pollIdx, polls, sleeps,
                   pollFound, rows, y, logged, reordered, ret>>

\* created_files = []; out = self.save(directory, to_json=True, **kwargs);
\* the data path (exported only) and the source path are tracked.
SaveStep ==
    /\ pc = "save"
    /\ LET r == _check_kwargs(Settings, kind, params.kwargs)
       IN  /\ Assign(r.settings)
           /\ IF r.raised
              THEN /\ err' = "NotSupportedYetError"
                   /\ pc' = "done"
                   /\ UNCHANGED <<tplLoaded, disk, created_files, FLOAT_REPR>>
              ELSE \E found \in TemplateFound(kind, r.settings) :
                   IF ~found
                   THEN /\ err' = "TemplateNotFound"
                        /\ pc' = "done"
                        /\ tplLoaded' = TRUE
                        /\ UNCHANGED <<disk, created_files, FLOAT_REPR>>
                   ELSE /\ err' = err
                        /\ pc' = "compile"
                        /\ tplLoaded' = TRUE
                        /\ disk' = disk \cup SavedFiles(r.settings.template)
                        /\ FLOAT_REPR' = FloatReprAfter(FLOAT_REPR, r.settings)
                        /\ created_files' =
                             IF r.settings.template = "exported"
                             THEN <<"data", "src">> ELSE <<"src">>
    /\ class_paths' = << >>
    /\ UNCHANGED <<model_data, out, capVars, compiled, score>>
    /\ UNCHANGED <<req, params, env, x, pollIdx, polls, sleeps, pollFound,
                   rows, y, logged, reordered, ret>>

\* Mutant of CompilePrep: gson.jar is tracked for deletion whether or not
\* this call downloaded it.
CompilePrepTrackAlways(l, t, cf, cp, d, isTest, dlOk) ==
    IF l \in {"c", "go"}
    THEN [created_files |-> Append(cf, "bin"), class_paths |-> cp,
          disk |-> d, raised |-> FALSE]
    ELSE IF l = "java"
    THEN LET cp1 == Append(cp, "dir")
             cf1 == Append(cf, "class")
         IN  IF t # "exported"
             THEN [created_files |-> cf1, class_paths |-> cp1, disk |-> d,
                   raised |-> FALSE]
             ELSE IF isTest
             THEN [created_files |-> cf1, class_paths |-> Append(cp1, "gson_env"),
                   disk |-> d, raised |-> FALSE]
             ELSE IF "gson" \in d \/ dlOk
             THEN [created_files |-> Append(cf1, "gson"),
                   class_paths |-> Append(cp1, "gson"),
                   disk |-> d \cup {"gson"}, raised |-> FALSE]
             ELSE [created_files |-> cf1, class_paths |-> cp1, disk |-> d,
                   raised |-> TRUE]
    ELSE [created_files |-> cf, class_paths |-> cp, disk |-> d, raised |-> FALSE]

\* _compile up to the compile command: the tracked files and class paths,
\* and the gson download of the exported Java template.
CompilePrep(l, t, cf, cp, d, isTest, dlOk) ==
    IF l \in {"c", "go"}
    THEN [created_files |-> Append(cf, "bin"), class_paths |-> cp,
          disk |-> d, raised |-> FALSE]
    ELSE IF l = "java"
    THEN LET cp1 == Append(cp, "dir")
             cf1 == Append(cf, "class")
         IN  IF t # "exported"
             THEN [created_files |-> cf1, class_paths |-> cp1, disk |-> d,
                   raised |-> FALSE]
             ELSE IF isTest
             THEN [created_files |-> cf1, class_paths |-> Append(cp1, "gson_env"),
                   disk |-> d, raised |-> FALSE]
             ELSE IF "gson" \in d
             THEN [created_files |-> cf1, class_paths |-> Append(cp1, "gson"),
                   disk |-> d, raised |-> FALSE]
             ELSE IF dlOk
             THEN [created_files |-> Append(cf1, "gson"),
                   class_paths |-> Append(cp1, "gson"),
                   disk |-> d \cup {"gson"}, raised |-> FALSE]
             ELSE [created_files |-> cf1, class_paths |-> cp1, disk |-> d,
                   raised |-> TRUE]
    ELSE [created_files |-> cf, class_paths |-> cp, disk |-> d, raised |-> FALSE]

Diags == SUBSET {"code too large", "too many constants"}

\* Mutant of CompileError: the compiler's output is not looked at.
CompileErrorGeneric(l, diag) == "CompilationFailed"

\* The exception a failed compile command raises.
CompileError(l, diag) ==
    IF l = "java" /\ "code too large" \in diag THEN "CodeTooLarge"
    ELSE IF l = "java" /\ "too many constants" \in diag THEN "TooManyConstants"
    ELSE "CompilationFailed"

\* self._compile(src_path, class_paths, created_files, language, template)
Compile ==
    /\ UNCHANGED <<portVars, capVars, score>>
    /\ pc = "compile"
    /\ IF ~HasCompileCmd(language)
       THEN /\ pc' = "poll"
            /\ UNCHANGED <<err, disk, created_files, class_paths, compiled>>
       ELSE \E isTest \in BOOLEAN, dlOk \in BOOLEAN, exit0 \in BOOLEAN,
               diag \in Diags :
            LET prep == CompilePrep(language, template, created_files,
                                    class_paths, disk, isTest, dlOk)
                ok == exit0 /\ env.toolchain
                gson == language = "java" /\ template = "exported"
            IN  /\ created_files' = prep.created_files
                /\ class_paths' = prep.class_paths
                /\ compiled' = [ran |-> ~prep.raised,
                                ok |-> ~prep.raised /\ ok,
                                diag |-> IF prep.raised \/ ok THEN {} ELSE diag,
                                isTest |-> gson /\ isTest,
                                hadGson |-> "gson" \in disk]
                /\ IF prep.raised
                   THEN err' = "URLError" /\ pc' = "done" /\ disk' = prep.disk
                   ELSE IF ok
                   THEN /\ err' = err
                        /\ pc' = "poll"
                        /\ disk' = prep.disk \cup {Artifact(language)}
                   ELSE /\ err' = CompileError(language, diag)
                        /\ pc' = "done"
                        /\ disk' = prep.disk
    /\ UNCHANGED <<estVars, req, tplLoaded, params, env, x, pollIdx, polls,
                   sleeps, pollFound, rows, y, logged, reordered, ret>>

\* Mutant of PollOnce: a found path does not break the loop.
PollOnceNoBreak(found, n, sl) ==
    [polls |-> n + 1, sleeps |-> IF found THEN sl ELSE sl + 1,
     over |-> n + 1 >= POLL_ATTEMPTS, found |-> found]

\* One turn of `for _ in range(10)` on the current path of paths_to_check:
\* open() it; found closes and breaks; IOError sleeps 100 ms.
PollOnce(found, n, sl) ==
    IF found
    THEN [polls |-> n + 1, sleeps |-> sl, over |-> TRUE, found |-> TRUE]
    ELSE [polls |-> n + 1, sleeps |-> sl + 1, over |-> n + 1 >= POLL_ATTEMPTS,
          found |-> FALSE]

Poll ==
    /\ UNCHANGED <<portVars, capVars, compiled, score>>
    /\ pc = "poll"
    /\ IF pollIdx > Len(paths_to_check(language))
       THEN pc' = "polled" /\ UNCHANGED <<pollIdx, polls, sleeps, pollFound>>
       ELSE \E found \in (IF paths_to_check(language)[pollIdx] \in disk
                          THEN BOOLEAN ELSE {FALSE}) :
            LET r == PollOnce(found, polls, sleeps)
                last == pollIdx = Len(paths_to_check(language))
            IN  /\ pollFound' = r.found
                /\ IF r.over /\ ~last
                   THEN pollIdx' = pollIdx + 1 /\ polls' = 0 /\ sleeps' = 0
                   ELSE /\ pollIdx' = IF r.over THEN pollIdx + 1 ELSE pollIdx
                        /\ polls' = r.polls
                        /\ sleeps' = r.sleeps
                /\ pc' = IF r.over /\ last THEN "polled" ELSE "poll"
    /\ UNCHANGED <<estVars, reqVars, params, env, x, disk, created_files,
                   class_paths, rows, y, logged, reordered, ret>>

\* The whitespace-separated tokens of a command line.
CmdTok(l) == [kind |-> "cmd", s |-> l, n |-> 0]
PathTok(p) == [kind |-> "path", s |-> p, n |-> 0]
NumTok(v) == [kind |-> "num", s |-> "", n |-> v]

\* json_path: ' ' without a data path, else ' ' + str(data_path) + ' '.
json_path(t) == IF t = "exported" THEN <<PathTok("data")>> ELSE << >>

\* Mutant of Command: the data path is put after the features.
CommandDataLast(l, t, e) ==
    <<CmdTok(l)>> \o [i \in 1..Len(e) |-> NumTok(e[i])] \o json_path(t)

\* The command of one row: cmd + json_path + ' '.join(map(str, e)).
Command(l, t, e) ==
    <<CmdTok(l)>> \o json_path(t) \o [i \in 1..Len(e) |-> NumTok(e[i])]

IsNum(tok) == tok.kind = "num"

\* The feature vector the program reads from its arguments.
Features(c) == LET a == SelectSeq(c, IsNum) IN [i \in 1..Len(a) |-> a[i].n]

\* x = [cmd + json_path + features for e in x]: the calls are ready.
StartCalls ==
    /\ UNCHANGED <<portVars, capVars, compiled, score>>
    /\ pc = "polled"
    /\ pc' = "exec"
    /\ pollIdx' = 1
    /\ polls' = 0
    /\ sleeps' = 0
    /\ rows' = [i \in 1..Len(x) |->
                  [st |-> "pending", calls |-> 0, last |-> None,
                   cmd |-> Command(language, template, x[i])]]
    /\ y' = << >>
    /\ UNCHANGED <<estVars, reqVars, params, env, x, disk, created_files,
                   class_paths, pollFound, logged, reordered, ret>>

Running == {j \in DOMAIN rows : rows[j].st = "running"}
Pending == {j \in DOMAIN rows : rows[j].st = "pending"}
Finished == {j \in DOMAIN rows : rows[j].st = "done"}

\* map / pool.map hands the calls out in input order to a free worker.
Take(i) ==
    /\ UNCHANGED <<portVars, capVars, compiled, score>>
    /\ pc = "exec"
    /\ i \in Pending
    /\ \A j \in Pending : i <= j
    /\ Cardinality(Running) < Workers(params.n_jobs).size
    /\ rows' = [rows EXCEPT ![i].st = "running"]
    /\ UNCHANGED <<estVars, reqVars, pc, params, env, x, disk, created_files,
                   class_paths, pollIdx, polls, sleeps, pollFound, y, logged,
                   reordered, ret>>

\* What one check_output of a row's command can give.
Outcomes(e) == IF e.toolchain THEN {"exit_nonzero", "malformed", "object"}
               ELSE {"exit_nonzero"}

\* Mutant of Decoded: the probabilities are read from key predictProba.
DecodedCamel(c, e) ==
    IF ~e.predict THEN << >>
    ELSE IF e.proba = "predictProba"
    THEN <<ProgramPredict(Features(c)), ProgramProba(Features(c))>>
    ELSE <<ProgramPredict(Features(c))>>

\* The list _system_call builds from the decoded object: empty without
\* the key predict, else the prediction and, if the object has the key
\* predict_proba, the probabilities.
Decoded(c, e) ==
    IF ~e.predict THEN << >>
    ELSE IF e.proba = "predict_proba"
    THEN <<ProgramPredict(Features(c)), ProgramProba(Features(c))>>
    ELSE <<ProgramPredict(Features(c))>>

\* Mutant of SystemCallTurn: the loop gives up one turn early.
SystemCallTurnShort(r, o, e) ==
    LET n == r.calls + 1
    IN  IF o = "object"
        THEN [row |-> [r EXCEPT !.calls = n, !.last = o, !.st = "done"],
              over |-> TRUE, result |-> ListResult(Decoded(r.cmd, e))]
        ELSE [row |-> [r EXCEPT !.calls = n, !.last = o,
                                !.st = IF n >= MAX_ATTEMPTS - 1 THEN "done"
                                       ELSE "running"],
              over |-> n >= MAX_ATTEMPTS - 1, result |-> NoneResult]

\* One turn of `for _ in range(10)` in _system_call: the row after it, and
\* the value returned if the call is over.
SystemCallTurn(r, o, e) ==
    LET n == r.calls + 1
    IN  IF o = "object"
        THEN [row |-> [r EXCEPT !.calls = n, !.last = o, !.st = "done"],
              over |-> TRUE, result |-> ListResult(Decoded(r.cmd, e))]
        ELSE [row |-> [r EXCEPT !.calls = n, !.last = o,
                                !.st = IF n >= MAX_ATTEMPTS THEN "done"
                                       ELSE "running"],
              over |-> n >= MAX_ATTEMPTS, result |-> NoneResult]

\* Mutant of Collect: the values are kept in the order the calls finish.
CollectUnordered(yy, i, v) == ((Cardinality(DOMAIN yy) + 1) :> v) @@ yy

\* map / pool.map keep each call's value at the index of its argument.
Collect(yy, i, v) == (i :> v) @@ yy

\* A worker runs one turn of _system_call for row i.
Attempt(i) ==
    /\ UNCHANGED <<portVars, capVars, compiled, score>>
    /\ pc = "exec"
    /\ i \in Running
    /\ \E o \in Outcomes(env) :
         LET t == SystemCallTurn(rows[i], o, env)
         IN  /\ rows' = [rows EXCEPT ![i] = t.row]
             /\ logged' = (logged \/ o = "malformed")
             /\ y' = IF t.over THEN Collect(y, i, t.result) ELSE y
             /\ reordered' = (reordered \/
                              (t.over /\ \E j \in 1..(i - 1) : j \notin Finished))
    /\ UNCHANGED <<estVars, reqVars, pc, params, env, x, disk, created_files,
                   class_paths, pollIdx, polls, sleeps, pollFound, ret>>

Min(S) == CHOOSE m \in S : \A k \in S : m <= k

\* y = list(zip(*y)): the columns, as many as the shortest result has.
Zip(yy) ==
    LET w == Min({Len(yy[i].val) : i \in DOMAIN yy})
    IN  [c \in 1..w |-> [i \in 1..Cardinality(DOMAIN yy) |-> yy[i].val[c]]]

\* The pool has drained: y = list(zip(*y)); a None among the results is not
\* iterable.
Join ==
    /\ UNCHANGED <<portVars, capVars, compiled, score>>
    /\ pc = "exec"
    /\ Finished = DOMAIN rows
    /\ rows # << >>
    /\ IF \E i \in DOMAIN y : y[i].none
       THEN err' = "TypeError" /\ pc' = "done" /\ y' = y
       ELSE err' = err /\ pc' = "cleanup" /\ y' = Zip(y)
    /\ UNCHANGED <<estVars, req, tplLoaded, params, env, x, disk,
                   created_files, class_paths, pollIdx, polls, sleeps,
                   pollFound, rows, logged, reordered, ret>>

\* Mutant of Cleanup: the tracked files are removed without waiting for
\* the calls to be over.
CleanupEarly ==
    /\ UNCHANGED <<portVars, capVars, compiled, score>>
    /\ pc \in {"exec", "cleanup"}
    /\ pc' = IF pc = "cleanup" THEN "return" ELSE pc
    /\ disk' = IF params.delete_created_files
               THEN disk \ Range(created_files) ELSE disk
    /\ UNCHANGED <<estVars, reqVars, params, env, x, created_files,
                   class_paths, pollIdx, polls, sleeps, pollFound, rows, y,
                   logged, reordered, ret>>

\* if delete_created_files: remove every tracked path that exists.
Cleanup ==
    /\ UNCHANGED <<portVars, capVars, compiled, score>>
    /\ pc = "cleanup"
    /\ pc' = "return"
    /\ disk' = IF params.delete_created_files
               THEN disk \ Range(created_files) ELSE disk
    /\ UNCHANGED <<estVars, reqVars, params, env, x, created_files,
                   class_paths, pollIdx, polls, sleeps, pollFound, rows, y,
                   logged, reordered, ret>>

\* The return statement: one column is predict alone; a single row is
\* returned bare.
Return ==
    /\ UNCHANGED <<portVars, capVars, compiled, score>>
    /\ pc = "return"
    /\ IF Len(y) = 0
       THEN err' = "IndexError" /\ ret' = ret /\ pc' = "done"
       ELSE /\ err' = err
            /\ ret' = [returned |-> TRUE, bare |-> Len(y[1]) = 1,
                       pred |-> y[1], hasProba |-> Len(y) # 1,
                       proba |-> IF Len(y) = 1 THEN << >> ELSE y[2]]
            /\ pc' = IF req.op = "test" THEN "score" ELSE "done"
    /\ UNCHANGED <<estVars, req, tplLoaded, params, env, x, disk,
                   created_files, class_paths, pollIdx, polls, sleeps,
                   pollFound, rows, y, logged, reordered>>

\* What the wrapped estimator itself predicts for a row: the ported
\* program differs from it on the rows whose first feature is even.
EstimatorPredict(f) ==
    IF f[1] % 2 = 0 THEN ProgramPredict(f) + 1 ELSE ProgramPredict(f)

\* accuracy_score(y_true, y_pred, normalize) on what make returned as its
\* predictions: the bare value of a single row is no collection of samples.
accuracy_score(y_true, rt, normalize) ==
    IF rt.bare THEN [raised |-> "TypeError", num |-> 0, den |-> 1]
    ELSE IF Len(rt.pred) # Len(y_true)
    THEN [raised |-> "ValueError", num |-> 0, den |-> 1]
    ELSE LET hits == Cardinality({i \in 1..Len(y_true) : y_true[i] = rt.pred[i]})
         IN  [raised |-> None, num |-> hits,
              den |-> IF normalize THEN Len(y_true) ELSE 1]

\* test(x, n_jobs, delete_created_files, normalize, **kw): _check_kwargs,
\* the estimator's own predictions, then make with the current language and
\* template as its keywords.
TestCall(kw, nj, del, nz, batch) ==
    /\ UNCHANGED <<portVars, capVars, compiled>>
    /\ pc = "idle"
    /\ LET r == _check_kwargs(Settings, kind, kw)
           mk == [NoKwargs EXCEPT !.language = r.settings.language,
                                  !.template = r.settings.template]
           r2 == IF r.raised THEN r ELSE _check_kwargs(r.settings, kind, mk)
       IN  /\ Assign(r2.settings)
           /\ req' = Requested("test", Settings, kind, kw)
           /\ err' = IF r2.raised THEN "NotSupportedYetError" ELSE None
           /\ pc' = IF r2.raised THEN "done" ELSE "deps"
           /\ params' = [n_jobs |-> nj, delete_created_files |-> del,
                         check_dependencies |-> TRUE, kwargs |-> mk]
    /\ tplLoaded' = FALSE
    /\ score' = [NoScore EXCEPT !.normalize = nz]
    /\ x' = batch
    /\ UNCHANGED <<env, disk, created_files, class_paths, pollIdx, polls,
                   sleeps, pollFound, rows, y, logged, reordered, ret>>

\* y_pred = y_pred[0]; return float(accuracy_score(y_true, y_pred, normalize))
Score ==
    /\ UNCHANGED <<portVars, capVars, compiled>>
    /\ pc = "score"
    /\ pc' = "done"
    /\ LET r == accuracy_score([i \in 1..Len(x) |-> EstimatorPredict(x[i])],
                               ret, score.normalize)
       IN  /\ err' = IF r.raised # None THEN r.raised ELSE err
           /\ score' = IF r.raised # None THEN score
                       ELSE [score EXCEPT !.returned = TRUE, !.num = r.num,
                                          !.den = r.den]
    /\ UNCHANGED <<estVars, req, tplLoaded, params, env, x, disk,
                   created_files, class_paths, pollIdx, polls, sleeps,
                   pollFound, rows, y, logged, reordered, ret>>

MaxRows == 2
MaxJobs == 2

\* The feature vector of the k-th distinct row.
Row(k) == <<k, k + 1>>

Batches == {[i \in 1..n |-> Row(i)] : n \in 1..MaxRows}
             \cup {[i \in 1..n |-> Row(n + 1 - i)] : n \in 1..MaxRows}

JobsTrue == [tag |-> "bool", val |-> 1]
JobsFalse == [tag |-> "bool", val |-> 0]
JobsInt(n) == [tag |-> "int", val |-> n]

\* The keyword arguments the make requests are drawn from.
MakeKwargs == {kw \in Kwargs : kw.class_name = None /\ kw.converter = None
                                /\ kw.method = None}

Steps ==
    \/ CheckDependencies
    \/ SaveStep
    \/ Compile
    \/ Poll
    \/ StartCalls
    \/ \E i \in 1..MaxRows : Take(i)
    \/ \E i \in 1..MaxRows : Attempt(i)
    \/ Join
    \/ Cleanup
    \/ Return

\* A default-constructed decision tree estimator, before its make.
InitMake ==
    /\ kind = "DecisionTreeClassifier"
    /\ language = DEFAULT_LANGUAGE(kind)
    /\ template = DEFAULT_TEMPLATE(kind)
    /\ class_name = "Default"
    /\ converter = "str"
    /\ req = NoRequest
    /\ err = None
    /\ tplLoaded = FALSE
    /\ model_data = SomeModel(kind)
    /\ MakeIdle

\* The whole pipeline, all languages and templates, one worker.
Init ==
    /\ InitMake
    /\ disk \in {{}, {"gson"}}
    /\ env \in {e \in [toolchain : BOOLEAN, predict : BOOLEAN,
                        proba : ProbaKeys \cup {None}] :
                   ~e.predict => e.proba = None}

Next ==
    \/ \E kw \in MakeKwargs, del \in BOOLEAN, chk \in BOOLEAN,
          batch \in {b \in Batches : Len(b) = 1} :
          MakeCall(kw, JobsTrue, del, chk, batch)
    \/ Steps

Spec == Init /\ [][Next]_vars

\* The calls of a batch on a worker pool, for an interpreted language.
InitExec ==
    /\ InitMake
    /\ disk = {}
    /\ env \in [toolchain : {TRUE}, predict : {TRUE},
               proba : {None, "predict_proba"}]

NextExec ==
    \/ \E kw \in {k \in MakeKwargs : k.language = "js" /\ k.template = None},
          nj \in {JobsTrue, JobsFalse} \cup {JobsInt(n) : n \in 2..MaxJobs},
          batch \in Batches :
          MakeCall(kw, nj, TRUE, TRUE, batch)
    \/ Steps

SpecExec == InitExec /\ [][NextExec]_vars

\* The calls of a full batch on a pool of MaxJobs workers, for a compiled
\* language, with and without the final cleanup.
InitPhases ==
    /\ InitMake
    /\ disk = {}
    /\ env = [toolchain |-> TRUE, predict |-> TRUE, proba |-> None]

NextPhases ==
    \/ \E kw \in {k \in MakeKwargs : k.language = "c" /\ k.template = None},
          del \in BOOLEAN, batch \in {b \in Batches : Len(b) = MaxRows} :
          MakeCall(kw, JobsInt(MaxJobs), del, TRUE, batch)
    \/ Steps

SpecPhases == InitPhases /\ [][NextPhases]_vars

\* test on the batches, for an interpreted language, the calls made one
\* after the other.
NextTest ==
    \/ \E kw \in {k \in MakeKwargs : k.language = "js" /\ k.template = None},
          del \in BOOLEAN, nz \in BOOLEAN, batch \in Batches :
          TestCall(kw, JobsTrue, del, nz, batch)
    \/ Steps
    \/ Score

SpecTest == InitExec /\ [][NextTest]_vars

\* can(estimator, language, template, method), a function of the module.
Can(k, l, t, m) ==
    /\ report' = [op |-> "can", kind |-> k, language |-> l, template |-> t,
                  method |-> m, can |-> can_of(registry, k, l, t, m),
                  table |-> NoTable]
    /\ UNCHANGED <<estVars, reqVars, makeVars, disk, portVars, registry>>

\* show(language), a function of the module.
Show(l) ==
    /\ report' = [NoReport EXCEPT !.op = "show", !.language = l,
                                  !.table = show(registry, l)]
    /\ UNCHANGED <<estVars, reqVars, makeVars, disk, portVars, registry>>

\* The capability queries: an estimator class, or an object that is none.
InitCan ==
    /\ InitMake
    /\ disk = {}
    /\ env = [toolchain |-> TRUE, predict |-> TRUE, proba |-> None]

NextCan ==
    \/ \E k \in Kinds \cup {"object"}, l \in Languages \cup {None},
          t \in Templates \cup {None}, m \in Methods \cup {None} :
          Can(k, l, t, m)
    \/ \E l \in Languages \cup {None} : Show(l)

SpecCan == InitCan /\ [][NextCan]_vars

\* The port of every model, by converter, template and language.
PortKwargs == {kw \in Kwargs : /\ kw.class_name = None /\ kw.method = None
                               /\ kw.language \in {None, "php"}}

InitPort ==
    /\ kind \in Kinds
    /\ model_data \in ModelData(kind)
    /\ \E v \in {None, "fixed"} :
          LET r == Constructed(kind, None, None, None, v)
          IN  /\ language = r.settings.language
              /\ template = r.settings.template
              /\ class_name = r.settings.class_name
              /\ converter = r.settings.converter
    /\ req = NoRequest
    /\ err = None
    /\ tplLoaded = FALSE
    /\ disk = {}
    /\ env = [toolchain |-> TRUE, predict |-> TRUE, proba |-> None]
    /\ MakeIdle

NextPort == \E kw \in PortKwargs : Port(kw)

SpecPort == InitPort /\ [][NextPort]_vars

\* ------------------------------------------------ claims on the estimator
IsRequest == req.op \in {"port", "save", "make"}

\* C5: a request whose (language, template, method) is absent from the
\* SUPPORT table is rejected with NotSupportedYetError before the estimator
\* subclass loads any template.
C5_GatedBeforeTemplates ==
    (IsRequest /\ ~can(kind, req.language, req.template, req.method))
        => (err = "NotSupportedYetError" /\ ~tplLoaded)

\* C6: the estimator's current (language, template) pair is always in its
\* SUPPORT table, so a port that loads templates does it for a supported pair.
C6_PairSupported == can(kind, language, template, None)

\* C7: a call rejected with NotSupportedYetError leaves language, template,
\* class name and converter as they were before the call.
C7_RejectedNoSideEffect ==
    [][err' = "NotSupportedYetError" => Settings' = Settings]_vars

\* ------------------------------------------------------ claims on make
\* C1: when make returns, the prediction (and probability) at index i is
\* the one the program printed for row i's command, whatever order the
\* workers finished in; a single row is returned bare.
C1_ResultsInRowOrder ==
    ret.returned =>
        /\ Len(ret.pred) = Len(x)
        /\ ret.bare = (Len(x) = 1)
        /\ \A i \in 1..Len(x) :
             /\ Features(rows[i].cmd) = x[i]
             /\ ret.pred[i] = ProgramPredict(x[i])
             /\ ret.hasProba => ret.proba[i] = ProgramProba(x[i])

C1_Witness ==
    /\ ret.returned
    /\ reordered
    /\ Workers(params.n_jobs).pool
    /\ Len(x) >= 2

\* C2: a row whose command exits non-zero on all 10 attempts makes the
\* request end with ExecutionFailed; _system_call does not return for it.
C2_ExhaustionRaises ==
    \A i \in DOMAIN rows :
        (rows[i].st = "done" /\ rows[i].calls = MAX_ATTEMPTS
         /\ rows[i].last = "exit_nonzero" /\ ~logged)
            => err = "ExecutionFailed"

\* C3: a command is invoked at most 10 times; the first successful
\* invocation ends the call with its decoded result and no error; and the
\* call gives up only after the 10th invocation, so a success on any of the
\* attempts 1..10 is returned.
C3_RetryBudget ==
    \A i \in DOMAIN rows :
        /\ rows[i].calls <= MAX_ATTEMPTS
        /\ rows[i].last = "object" =>
             /\ rows[i].st = "done"
             /\ pc = "exec" => /\ i \in DOMAIN y
                               /\ y[i] = ListResult(Decoded(rows[i].cmd, env))
                               /\ err = None
        /\ (rows[i].st = "done" /\ rows[i].last # "object") =>
             rows[i].calls = MAX_ATTEMPTS
        /\ (rows[i].st = "running" /\ rows[i].calls > 0) =>
             rows[i].last # "object"

C3_Witness ==
    \E i \in DOMAIN rows :
        /\ rows[i].calls = MAX_ATTEMPTS
        /\ rows[i].last = "object"
        /\ ~logged
        /\ pc = "exec"
        /\ y[i] = ListResult(Decoded(rows[i].cmd, env))

\* C4: output that does not parse as JSON is logged, the row is dropped
\* without another invocation, and the batch still returns the other rows.
C4_MalformedDropsRow ==
    \A i \in DOMAIN rows :
        rows[i].last = "malformed" =>
            /\ logged
            /\ rows[i].st = "done"
            /\ rows[i].calls = 1
            /\ pc = "done" => (err = None /\ ret.returned)

Generated == {"src", "data", "bin", "class"}

\* C8 as stated: with a required binary absent, no source, data or compiled
\* file is ever created.
C8_AbsentToolchainNoFiles ==
    ~env.toolchain => disk \cap Generated = {}

\* C8 amended: with a required binary absent and check_dependencies true,
\* make raises before any source, data or compiled file is created.
C8_CheckedAbsentToolchainNoFiles ==
    (~env.toolchain /\ params.check_dependencies) =>
        /\ disk \cap Generated = {}
        /\ pc \in {"idle", "deps", "done"}
        /\ pc = "done" => err \in {"RuntimeError", "NotSupportedYetError"}

C8_Witness ==
    /\ pc = "done"
    /\ params.check_dependencies
    /\ err = "RuntimeError"
    /\ ~env.toolchain
    /\ disk \cap Generated = {}

\* C9: when make is over and cleanup was requested, by a return or by an
\* error, no tracked path is left on disk.
C9_CleanupOnCompletion ==
    (pc = "done" /\ params.delete_created_files) =>
        Range(created_files) \cap disk = {}

\* C10: a path is polled at most 10 times; while the loop runs every
\* attempt so far failed and was followed by one pause; the loop ends at the
\* first attempt that finds the path or after the 10th failure; and the end
\* of polling raises nothing and leads on to the calls.
C10_PollBudget ==
    /\ polls <= POLL_ATTEMPTS
    /\ pc = "poll" => (~pollFound /\ sleeps = polls /\ polls < POLL_ATTEMPTS)
    /\ pc = "polled" =>
         /\ IF pollFound THEN sleeps = polls - 1
            ELSE sleeps = polls /\ polls = POLL_ATTEMPTS
         /\ err = None
         /\ ENABLED StartCalls

C10_Witness ==
    /\ pc = "exec"
    /\ ~pollFound
    /\ \E i \in DOMAIN rows : rows[i].calls >= 1

\* C11: the default n_jobs (True) runs the calls on a pool of cpu_count
\* workers; the synchronous path is taken only for False or an integer <= 1;
\* and an integer n > 1 gives a pool of n workers.
C11_DefaultJobsUsePool ==
    pc = "exec" =>
        LET w == Workers(params.n_jobs)
        IN  /\ params.n_jobs = JobsTrue => (w.pool /\ w.size = cpu_count)
            /\ ~w.pool => (params.n_jobs = JobsFalse
                           \/ (params.n_jobs.tag = "int" /\ params.n_jobs.val <= 1))
            /\ (params.n_jobs.tag = "int" /\ params.n_jobs.val > 1) =>
                 (w.pool /\ w.size = params.n_jobs.val)

\* C16: every row's command is the execute command, then the data-file
\* path if and only if the template is exported, then the row's feature
\* values in column order; the data path comes before every feature.
C16_CommandLayout ==
    pc = "exec" =>
        \A i \in DOMAIN rows :
            LET c == rows[i].cmd
                paths == {k \in DOMAIN c : c[k].kind = "path"}
                nums == {k \in DOMAIN c : c[k].kind = "num"}
            IN  /\ c[1] = CmdTok(language)
                /\ (paths # {}) <=> (template = "exported")
                /\ \A k \in paths : k = 2 /\ c[k] = PathTok("data")
                /\ \A k \in paths, j \in nums : k < j
                /\ Features(c) = x[i]
                /\ Len(c) = 1 + Cardinality(paths) + Len(x[i])

C16_Witness ==
    /\ pc = "exec"
    /\ template = "exported"
    /\ \E i \in DOMAIN rows : /\ rows[i].cmd[2] = PathTok("data")
                              /\ rows[i].calls >= 1
                              /\ Len(x[i]) = 2 /\ x[i][1] # x[i][2]

FeatureValues == {22, 100, 200}
FeatureVectors == [FeatureIdx -> FeatureValues]

\* The branch code run on features f: the class buffer it leaves, starting
\* from zeros. stack holds, per open if, whether its block runs.
RECURSIVE Exec(_, _, _, _, _)
Exec(toks, pos, stack, buf, f) ==
    IF pos > Len(toks) THEN buf
    ELSE
    LET t == toks[pos]
        active == IF stack = << >> THEN TRUE ELSE stack[Len(stack)].active
        top == stack[Len(stack)]
    IN  CASE t.kind = "if" ->
               LET cond == f[t.a] <= Parse(t.b)
               IN  Exec(toks, pos + 1,
                        Append(stack, [active |-> active /\ cond,
                                       parent |-> active, cond |-> cond]),
                        buf, f)
          [] t.kind = "else" ->
               Exec(toks, pos + 1,
                    [stack EXCEPT ![Len(stack)].active = top.parent /\ ~top.cond],
                    buf, f)
          [] t.kind = "endif" ->
               Exec(toks, pos + 1, SubSeq(stack, 1, Len(stack) - 1), buf, f)
          [] t.kind = "assign" ->
               Exec(toks, pos + 1, stack,
                    IF active THEN [buf EXCEPT ![t.a + 1] = ParseInt(t.b)]
                    ELSE buf, f)
          [] OTHER -> Exec(toks, pos + 1, stack, buf, f)

\* The arrays a program holds, read from its literals or its data file.
ParsedTree(a) ==
    [lefts |-> [i \in DOMAIN a.lefts |-> ParseInt(a.lefts[i])],
     rights |-> [i \in DOMAIN a.rights |-> ParseInt(a.rights[i])],
     thresholds |-> [i \in DOMAIN a.thresholds |-> Parse(a.thresholds[i])],
     indices |-> [i \in DOMAIN a.indices |-> ParseInt(a.indices[i])],
     classes |-> [i \in DOMAIN a.classes |->
                    [j \in DOMAIN a.classes[i] |-> ParseInt(a.classes[i][j])]]]

\* The index-driven walk of the attached and exported programs: from node,
\* left while features[indices[node]] <= thresholds[node], else right, until
\* a node whose threshold is the leaf sentinel.
RECURSIVE Walk(_, _, _)
Walk(ar, node, f) ==
    IF node \notin DOMAIN ar.thresholds THEN [ok |-> FALSE, counts |-> << >>]
    ELSE IF ar.thresholds[node] = LEAF
    THEN [ok |-> TRUE, counts |-> ar.classes[node]]
    ELSE IF f[ar.indices[node]] <= ar.thresholds[node]
    THEN Walk(ar, ar.lefts[node], f)
    ELSE Walk(ar, ar.rights[node], f)

\* The class counts the program of a port output computes for features f.
ProgramCounts(o, f, n_classes) ==
    IF o.src.tpl = "combined.class"
    THEN [ok |-> TRUE,
          counts |-> Exec(o.src.vals.tree, 1, << >>,
                          [j \in 1..n_classes |-> 0], f)]
    ELSE IF o.src.tpl = "attached.class"
    THEN Walk(ParsedTree(o.src.vals), 0, f)
    ELSE Walk(ParsedTree(o.data), 0, f)

\* ------------------------------------------------- claims on the port
IsTree == kind = "DecisionTreeClassifier"
PortedAs(tpl) == out.returned /\ out.src.tpl = tpl

\* Every split of the tree has both children.
FullTree(md) ==
    \A i \in DOMAIN md.lefts :
        md.thresholds[i] # LEAF =>
            (md.lefts[i] # NO_CHILD /\ md.rights[i] # NO_CHILD)

\* C12: for every tree whose splits have both children and every feature
\* vector, the branch code of the combined output leaves the class counts of
\* the leaf that the walk of the attached program and the walk of the
\* exported program reach with the same estimator settings.
C12_ModesAgree ==
    (IsTree /\ PortedAs("combined.class") /\ FullTree(model_data)) =>
        \A f \in FeatureVectors, t \in {"attached", "exported"} :
            can(kind, language, t, None) =>
                ProgramCounts(out, f, Len(model_data.classes[0]))
                  = ProgramCounts(
                      DecisionTreeClassifier_port(language, t, class_name,
                                                  converter, FALSE, model_data),
                      f, Len(model_data.classes[0]))

\* The leaves and the splits below node, in the order the compiler visits
\* them.
RECURSIVE LeavesBelow(_, _)
LeavesBelow(md, node) ==
    IF node = NO_CHILD THEN << >>
    ELSE IF md.thresholds[node] = LEAF THEN <<node>>
    ELSE LeavesBelow(md, md.lefts[node]) \o LeavesBelow(md, md.rights[node])

RECURSIVE SplitsBelow(_, _)
SplitsBelow(md, node) ==
    IF node = NO_CHILD THEN << >>
    ELSE IF md.thresholds[node] = LEAF THEN << >>
    ELSE <<node>> \o SplitsBelow(md, md.lefts[node])
                  \o SplitsBelow(md, md.rights[node])

IsAssign(tok) == tok.kind = "assign"
IsIf(tok) == tok.kind = "if"
IsPositive(pr) == pr.n > 0

\* The (class, count) pairs of a leaf row with a positive count, ascending.
PositivePairs(v) ==
    SelectSeq([i \in 1..Len(v) |-> [c |-> i - 1, n |-> v[i]]], IsPositive)

\* C13: the assignments of the emitted branch code are, leaf by leaf, one
\* per class with a positive count, in ascending class order and carrying
\* that count; no assignment carries a zero count, and a leaf whose counts
\* are all zero contributes none.
C13_LeafAssignments ==
    (IsTree /\ PortedAs("combined.class")) =>
        LET toks == out.src.vals.tree
            assigns == SelectSeq(toks, IsAssign)
            leaves == LeavesBelow(model_data, 0)
        IN  /\ [k \in 1..Len(assigns) |->
                  [c |-> assigns[k].a, n |-> ParseInt(assigns[k].b)]]
               = Flatten([k \in 1..Len(leaves) |->
                            PositivePairs(model_data.classes[leaves[k]])])
            /\ \A k \in 1..Len(assigns) : assigns[k].b = str_int(ParseInt(assigns[k].b))
                                          /\ ParseInt(assigns[k].b) > 0
            /\ (Len(leaves) = 1 /\ \A j \in DOMAIN model_data.classes[0] :
                                      model_data.classes[0][j] = 0)
                 => toks = <<JoinTok>>

C13_Witness ==
    /\ IsTree
    /\ PortedAs("combined.class")
    /\ \E i, j \in DOMAIN model_data.thresholds :
         /\ model_data.thresholds[i] = LEAF
         /\ model_data.thresholds[j] = LEAF
         /\ model_data.classes[i] = <<0, 0, 0>>
         /\ Len(PositivePairs(model_data.classes[j])) = 2

\* C14: the emitted branch code has no empty block: no if directly
\* followed by else, and no else directly followed by endif.
C14_NoEmptyBlock ==
    (IsTree /\ PortedAs("combined.class")) =>
        LET toks == out.src.vals.tree
        IN  \A k \in 1..(Len(toks) - 1) :
               /\ ~(toks[k].kind = "if" /\ toks[k + 1].kind = "else")
               /\ ~(toks[k].kind = "else" /\ toks[k + 1].kind = "endif")

\* C15: port returns a pair (source, data) exactly for the exported
\* template and a single source otherwise; the exported source binds none
\* of the model data arrays, which are all in the data instead.
C15_PairIffExported ==
    out.returned =>
        LET arrays == IF IsTree
                      THEN {"lefts", "rights", "thresholds", "indices", "classes"}
                      ELSE {"layers", "weights", "bias"}
        IN  /\ out.pair <=> (template = "exported")
            /\ out.pair =>
                 /\ out.src.tpl = "exported.class"
                 /\ DOMAIN out.src.vals \cap (ArrayNames \cup {"tree"}) = {}
                 /\ arrays \subseteq DOMAIN out.data
            /\ ~out.pair =>
                 /\ out.data = NoData
                 /\ arrays \subseteq DOMAIN out.src.vals

C15_Witness ==
    /\ out.returned
    /\ out.pair
    /\ kind = "MLPClassifier"
    /\ err = None

\* The text the estimator's converter gives for v.
Applied(v) == IF converter = "fixed" THEN fixed(v) ELSE str_float(v)

\* C18: every float of the exported data is written as the text the
\* estimator's converter returns for it.
C18_DataUsesConverter ==
    (out.returned /\ out.pair) =>
        IF IsTree
        THEN \A i \in DOMAIN model_data.thresholds :
                out.data.thresholds[i] = Applied(model_data.thresholds[i])
        ELSE /\ \A i \in DOMAIN model_data.weights :
                  \A j \in DOMAIN model_data.weights[i] :
                    \A n \in DOMAIN model_data.weights[i][j] :
                      out.data.weights[i][j][n]
                        = Applied(model_data.weights[i][j][n])
             /\ \A i \in DOMAIN model_data.bias :
                  \A j \in DOMAIN model_data.bias[i] :
                    out.data.bias[i][j] = Applied(model_data.bias[i][j])

\* C19: a port call leaves the state of the process as it was.
C19_NoProcessWideEffect == [][FLOAT_REPR' = FLOAT_REPR]_vars

\* C20: in the attached and combined outputs every float is the converter's
\* text for it (each entry of the thresholds literal, the threshold of each
\* if in visiting order, each weight and bias), and every integer array is
\* str of its values, the -1 and -2 sentinels included.
C20_EmittedThroughConverter ==
    (out.returned /\ ~out.pair) =>
        LET v == out.src.vals
            md == model_data
        IN  IF IsTree
            THEN /\ \A i \in DOMAIN md.thresholds :
                      /\ v.thresholds[i] = Applied(md.thresholds[i])
                      /\ v.lefts[i] = str_int(md.lefts[i])
                      /\ ParseInt(v.lefts[i]) = md.lefts[i]
                      /\ v.rights[i] = str_int(md.rights[i])
                      /\ ParseInt(v.rights[i]) = md.rights[i]
                      /\ v.indices[i] = str_int(md.indices[i])
                      /\ \A j \in DOMAIN md.classes[i] :
                           v.classes[i][j] = str_int(md.classes[i][j])
                 /\ out.src.tpl = "combined.class" =>
                      LET ifs == SelectSeq(v.tree, IsIf)
                          splits == SplitsBelow(md, 0)
                      IN  /\ Len(ifs) = Len(splits)
                          /\ \A k \in 1..Len(ifs) :
                               /\ ifs[k].b = Applied(md.thresholds[splits[k]])
                               /\ ifs[k].a = md.indices[splits[k]]
            ELSE /\ \A i \in DOMAIN md.layers :
                      v.layers[i] = str_int(md.layers[i])
                 /\ \A i \in DOMAIN md.weights :
                      \A j \in DOMAIN md.weights[i] :
                        \A n \in DOMAIN md.weights[i][j] :
                          v.weights[i][j][n] = Applied(md.weights[i][j][n])
                 /\ \A i \in DOMAIN md.bias :
                      \A j \in DOMAIN md.bias[i] :
                        v.bias[i][j] = Applied(md.bias[i][j])

C20_Witness ==
    /\ IsTree
    /\ PortedAs("combined.class")
    /\ converter = "fixed"
    /\ \E k \in DOMAIN out.src.vals.tree :
         /\ out.src.vals.tree[k].kind = "if"
         /\ out.src.vals.tree[k].b = fixed(25)
         /\ fixed(25) # str_float(25)
    /\ \E i \in DOMAIN model_data.lefts : model_data.lefts[i] = NO_CHILD

\* ------------------------------------------------- claims on _compile
\* The error kind the compiler's output names, oversized code first.
KindOf(diag) ==
    IF "code too large" \in diag THEN "CodeTooLarge"
    ELSE IF "too many constants" \in diag THEN "TooManyConstants"
    ELSE "CompilationFailed"

\* C21 as stated: a failed compile command ends make with the error kind
\* its output names, for every compiled language; a compile that succeeds
\* raises nothing.
C21_KindByOutput ==
    compiled.ran =>
        IF compiled.ok
        THEN pc = "poll" => err = None
        ELSE pc = "done" /\ err = KindOf(compiled.diag)

\* C21 amended: the output is classified for Java only; a failed C or Go
\* compile raises CompilationFailed whatever its output says.
C21_KindByOutputForJava ==
    compiled.ran =>
        IF compiled.ok
        THEN /\ pc = "poll" => err = None
             /\ err \notin {"CodeTooLarge", "TooManyConstants",
                            "CompilationFailed"}
        ELSE /\ pc = "done"
             /\ err = IF language = "java" THEN KindOf(compiled.diag)
                      ELSE "CompilationFailed"

C21_Witness ==
    /\ compiled.ran
    /\ ~compiled.ok
    /\ language = "java"
    /\ compiled.diag = {"too many constants"}
    /\ err = "TooManyConstants"
    /\ pc = "done"

NeedsGson == language = "java" /\ template = "exported"
GsonTracked == "gson" \in Range(created_files)
BeforeCleanup == pc \in {"poll", "polled", "exec", "cleanup"}

\* C22 as stated: for the exported Java template, gson.jar is downloaded
\* exactly when it was not at its local path, it is on the class paths, it
\* is tracked for cleanup exactly when it was downloaded, and a library that
\* was there before is never removed.
C22_GsonOnce ==
    (compiled.ran /\ NeedsGson) =>
        /\ BeforeCleanup => "gson" \in disk
        /\ GsonTracked <=> ~compiled.hadGson
        /\ Range(class_paths) \cap {"gson", "gson_env"} # {}
        /\ compiled.hadGson => "gson" \in disk

\* C22 amended: the same when the environment does not name a library for
\* the tests; when it does (SKLEARN_PORTER_PYTEST and
\* SKLEARN_PORTER_PYTEST_GSON_PATH are set), the named path is put on the
\* class paths and nothing is downloaded or tracked.
C22_GsonOnceUnlessTestEnv ==
    /\ (compiled.ran /\ NeedsGson) =>
        /\ compiled.isTest =>
             /\ ~GsonTracked
             /\ "gson_env" \in Range(class_paths)
             /\ "gson" \notin Range(class_paths)
             /\ "gson" \in disk <=> compiled.hadGson
        /\ ~compiled.isTest =>
             /\ "gson" \in Range(class_paths)
             /\ BeforeCleanup => "gson" \in disk
             /\ GsonTracked <=> ~compiled.hadGson
        /\ compiled.hadGson => "gson" \in disk
        /\ (GsonTracked /\ pc = "return" /\ params.delete_created_files)
             => "gson" \notin disk
    /\ (compiled.ran /\ ~NeedsGson) =>
        /\ ~GsonTracked
        /\ Range(class_paths) \cap {"gson", "gson_env"} = {}
        /\ "gson" \in disk <=> compiled.hadGson

C22_Witness ==
    /\ compiled.ran
    /\ NeedsGson
    /\ ~compiled.isTest
    /\ ~compiled.hadGson
    /\ GsonTracked
    /\ pc = "return"
    /\ params.delete_created_files
    /\ "gson" \notin disk

\* ------------------------------------------- claims on the capabilities
IsMLP == kind \in {"MLPClassifier", "MLPRegressor"}

\* C23: no MLP kind supports the combined template, in any language and
\* for any method; an MLP estimator never has it selected; and selecting it,
\* by the setter or by a keyword of port or save, is rejected with
\* NotSupportedYetError, nothing being rendered.
C23_CombinedTreesOnly ==
    IsMLP =>
        /\ \A l \in Languages, m \in Methods \cup {None} :
             ~can(kind, l, "combined", m)
        /\ template # "combined"
        /\ (req.op \in {"template", "port", "save"} /\ req.template = "combined")
             => /\ err = "NotSupportedYetError"
                /\ ~tplLoaded
                /\ ~out.returned

C23_Witness ==
    /\ kind = "MLPRegressor"
    /\ req.op = "template"
    /\ req.template = "combined"
    /\ err = "NotSupportedYetError"
    /\ template = "exported"

\* ------------------------------------------------------ claims on test
\* The number of rows on which make's prediction is the estimator's own.
Hits ==
    Cardinality({i \in 1..Len(x) : ret.pred[i] = EstimatorPredict(x[i])})

\* C24: when the make of a test has returned its predictions for the n
\* rows, test returns the number of rows on which the prediction equals the
\* estimator's own, divided by n if normalize is true.
C24_TestScore ==
    (req.op = "test" /\ pc = "done" /\ ret.returned) =>
        /\ err = None
        /\ score.returned
        /\ score.num = Hits
        /\ score.den = IF score.normalize THEN Len(x) ELSE 1

\* C25: the report has a cell for every estimator class, every language
\* shown and every template; the cell is the probability marker exactly
\* when the registry lists predict_proba for the triple, the plain marker
\* exactly when the triple is listed without predict_proba, and the
\* unsupported marker otherwise; and the registry stays what the classes
\* define.
C25_ReportIsProjection ==
    /\ registry = ClassSupport
    /\ report.op = "show" =>
         /\ DOMAIN report.table = Kinds
         /\ \A k \in Kinds :
              /\ DOMAIN report.table[k] = IF report.language = None
                                          THEN Languages ELSE {report.language}
              /\ \A l \in DOMAIN report.table[k], t \in Templates :
                   LET listed == /\ l \in DOMAIN registry[k]
                                 /\ t \in DOMAIN registry[k][l]
                       cell == report.table[k][l][t]
                   IN  /\ cell \in {"proba", "plain", "none"}
                       /\ cell = "proba" <=>
                            (listed /\ "predict_proba" \in registry[k][l][t])
                       /\ cell = "plain" <=>
                            (listed /\ "predict_proba" \notin registry[k][l][t])
                       /\ cell = "none" <=> ~listed

C25_Witness ==
    /\ report.op = "show"
    /\ report.language = None
    /\ report.table["DecisionTreeClassifier"]["java"]["combined"] = "proba"
    /\ report.table["MLPRegressor"]["js"]["attached"] = "plain"
    /\ report.table["MLPClassifier"]["js"]["combined"] = "none"
    /\ report.table["DecisionTreeClassifier"]["c"]["exported"] = "none"

\* C29: for an estimator class, can with any of language, template and
\* method omitted is true exactly when some (language, template, method) of
\* its SUPPORT table agrees with every argument given.
C29_CanIsProjection ==
    (report.op = "can" /\ report.kind \in Kinds) =>
        (report.can <=>
           \E l \in DOMAIN SUPPORT(report.kind) :
             \E t \in DOMAIN SUPPORT(report.kind)[l] :
               \E m \in SUPPORT(report.kind)[l][t] :
                  /\ report.language \in {None, l}
                  /\ report.template \in {None, t}
                  /\ report.method \in {None, m})

\* ------------------------------------------- claims on the tree compiler
\* The number of ancestors of a node.
RECURSIVE NodeDepth(_, _)
NodeDepth(md, node) ==
    IF node = 0 THEN 0
    ELSE LET p == CHOOSE q \in DOMAIN md.lefts :
                     md.lefts[q] = node \/ md.rights[q] = node
         IN  1 + NodeDepth(md, p)

\* The (class, count) pairs the leaves below node call for, leaf by leaf.
LeafPairs(md, node) ==
    LET lv == LeavesBelow(md, node)
    IN  Flatten([k \in 1..Len(lv) |-> PositivePairs(md.classes[lv[k]])])

\* The (class, count) pairs assigned by the tokens a..b.
AssignedIn(toks, a, b) ==
    LET as == SelectSeq(SubSeq(toks, a, b), IsAssign)
    IN  [k \in 1..Len(as) |-> [c |-> as[k].a, n |-> ParseInt(as[k].b)]]

\* The positions after p of the tokens of a kind at the depth of token p.
After(toks, p, kd) ==
    {q \in (p + 1)..Len(toks) :
        toks[q].kind = kd /\ toks[q].depth = toks[p].depth}

\* C26: for every tree the compiler returns, and the code has one if, one
\* else and one endif per split, the ifs in preorder; between a split's if
\* and its else lie exactly the assignments of the leaves of its left
\* subtree, between its else and its endif those of its right subtree, each
\* leaf contributing once; and a node's tokens are one level deeper than its
\* parent's.
C26_PreorderEmission ==
    /\ (IsTree /\ req.op = "port" /\ template = "combined" /\ err = None)
         => PortedAs("combined.class")
    /\ (IsTree /\ PortedAs("combined.class")) =>
        LET toks == out.src.vals.tree
            md == model_data
            splits == SplitsBelow(md, 0)
            leaves == LeavesBelow(md, 0)
            ifAt == {p \in DOMAIN toks : toks[p].kind = "if"}
            Nth(k) == CHOOSE p \in ifAt : Cardinality({q \in ifAt : q < p}) = k - 1
            assigns == SelectSeq(toks, IsAssign)
        IN  /\ Cardinality(ifAt) = Len(splits)
            /\ Cardinality({p \in DOMAIN toks : toks[p].kind = "else"}) = Len(splits)
            /\ Cardinality({p \in DOMAIN toks : toks[p].kind = "endif"}) = Len(splits)
            /\ AssignedIn(toks, 1, Len(toks)) = LeafPairs(md, 0)
            /\ Cardinality({p \in DOMAIN toks : toks[p].kind = "join"})
                 = Len(Flatten([k \in 1..Len(leaves) |->
                          IF PositivePairs(md.classes[leaves[k]]) = << >>
                          THEN <<0>>
                          ELSE PositivePairs(md.classes[leaves[k]])]))
            /\ \A k \in 1..Len(splits) :
                 LET p == Nth(k)
                     s == splits[k]
                     d == toks[p].depth
                 IN  /\ toks[p].a = md.indices[s]
                     /\ d = toks[Nth(1)].depth + NodeDepth(md, s)
                     /\ After(toks, p, "else") # {}
                     /\ LET q == Min(After(toks, p, "else"))
                        IN  /\ After(toks, q, "endif") # {}
                            /\ LET r == Min(After(toks, q, "endif"))
                               IN  /\ AssignedIn(toks, p + 1, q - 1)
                                        = LeafPairs(md, md.lefts[s])
                                   /\ AssignedIn(toks, q + 1, r - 1)
                                        = LeafPairs(md, md.rights[s])
                                   /\ \A j \in (p + 1)..(r - 1) :
                                        (j # q /\ toks[j].kind # "join")
                                           => toks[j].depth > d
            /\ splits # << >> =>
                 [k \in 1..Len(assigns) |-> assigns[k].depth - toks[Nth(1)].depth]
                   = Flatten([k \in 1..Len(leaves) |->
                        [j \in 1..Len(PositivePairs(md.classes[leaves[k]])) |->
                           NodeDepth(md, leaves[k])]])

C26_Witness ==
    /\ IsTree
    /\ PortedAs("combined.class")
    /\ Len(SplitsBelow(model_data, 0)) = 2
    /\ \E i \in DOMAIN model_data.lefts :
         /\ NodeDepth(model_data, i) = 2
         /\ Len(PositivePairs(model_data.classes[i])) = 2
    /\ Len(SelectSeq(out.src.vals.tree, IsAssign)) = 2

\* ------------------------------------------------ claims on make's phases
\* C27: every path polled is a file this request produces and tracks: the
\* source for an interpreted target, the compiled artifact recorded for
\* cleanup for a compiled one.
C27_PolledPathsAreProduced ==
    (pc = "poll" /\ pollIdx <= Len(paths_to_check(language))) =>
        LET p == paths_to_check(language)[pollIdx]
        IN  /\ p \in Range(created_files)
            /\ p = IF HasCompileCmd(language) THEN Artifact(language) ELSE "src"

\* The position of a phase in make.
Rank(p) ==
    CASE p = "idle" -> 0 [] p = "deps" -> 1 [] p = "save" -> 2
      [] p = "compile" -> 3 [] p = "poll" -> 4 [] p = "polled" -> 5
      [] p = "exec" -> 6 [] p = "cleanup" -> 7 [] p = "return" -> 8
      [] p = "score" -> 9 [] p = "done" -> 10

\* Where make stands when a phase is over.
PhasesInOrder ==
    /\ Rank(pc) \in 3..9 => SavedFiles(template) \subseteq Range(created_files)
    /\ Rank(pc) \in 3..6 => SavedFiles(template) \subseteq disk
    /\ (Rank(pc) \in 4..9 /\ HasCompileCmd(language)) =>
         (compiled.ok /\ Artifact(language) \in Range(created_files))
    /\ (Rank(pc) \in 4..6 /\ HasCompileCmd(language)) =>
         Artifact(language) \in disk
    /\ Rank(pc) \in 5..9 => pollIdx > Len(paths_to_check(language)) \/ pollIdx = 1
    /\ Rank(pc) < 6 => (rows = << >> /\ y = << >>)
    /\ Rank(pc) \in 7..9 => (rows # << >> /\ Finished = DOMAIN rows)
    /\ (Rank(pc) \in 8..9 /\ params.delete_created_files) =>
         Range(created_files) \cap disk = {}

\* One step of make: the phases only advance, by one or to the end; the
\* tracked list changes only in the save and in _compile; and a tracked file
\* leaves the disk only in the cleanup, every call being over.
PhaseStep ==
    /\ Rank(pc') >= Rank(pc)
    /\ Rank(pc') \in {Rank(pc), Rank(pc) + 1, Rank("done")}
    /\ created_files' # created_files => pc \in {"save", "compile"}
    /\ (\E f \in Range(created_files) : f \in disk /\ f \notin disk') =>
         /\ pc = "cleanup"
         /\ Running = {} /\ Pending = {}
    /\ (pc = "exec" /\ pc' = "exec") =>
         /\ created_files' = created_files
         /\ disk' = disk

\* C28: within one make the files are saved, then _compile is over, then
\* the polling, then all the calls, then the cleanup; no tracked file is
\* removed while a call is pending or running; and no worker changes the
\* tracked list.
C28_PhasesOrdered == []PhasesInOrder /\ [][PhaseStep]_vars

C28_Witness ==
    /\ pc = "return"
    /\ params.delete_created_files
    /\ reordered
    /\ Len(x) >= 2
    /\ Workers(params.n_jobs).pool
    /\ HasCompileCmd(language)
    /\ "src" \in Range(created_files) /\ "src" \notin disk

\* C30: when every call of a batch ran once and gave a JSON object, make
\* returns without raising: one prediction per row (bare for a single row),
\* and probabilities, one per row, exactly when the calls returned them.
C30_ObjectsAlwaysReturn ==
    (pc = "done" /\ rows # << >>
     /\ \A i \in DOMAIN rows : rows[i].calls = 1 /\ rows[i].last = "object") =>
        /\ err = None
        /\ ret.returned
        /\ Len(ret.pred) = Len(x)
        /\ ret.bare = (Len(x) = 1)
        /\ ret.hasProba <=>
             \A i \in DOMAIN rows : Len(Decoded(rows[i].cmd, env)) = 2
        /\ ret.hasProba => Len(ret.proba) = Len(x)

====
